---------------------------- MODULE Spec2Model ----------------------------
(***************************************************************************)
(* Model of the transactional wrapper layer of flow-collab:                *)
(*   collab/src/core/map_wrapper.rs   (MapRefWrapper)                      *)
(* A document is a heap of nodes (map / array / text) addressed by node    *)
(* ids; a MapRefWrapper handle is the id of a map node.  Application       *)
(* threads call the wrapper's methods; mutations go through the            *)
(* transaction context's single mutating-transaction slot.                 *)
(***************************************************************************)
EXTENDS Integers, Sequences, FiniteSets, TLC

VARIABLES
    doc,      \* committed document: node id -> node (what a read transaction sees)
    work,     \* document as seen and written by the open mutating transaction
    open,     \* set of threads holding an open mutating transaction
    pc,       \* per thread: "idle" | "waiting" | "in_txn" | "exiting" | "done"
    call,     \* per thread: the wrapper method being executed and its arguments
    nops,     \* per thread: operations a concurrent closure has executed so far
    outcome,  \* per thread: "ok" | "panic", how the closure left
    opens,    \* per thread: transactions opened during the current call
    last,     \* the operation just executed, with the value it returned
    pre,      \* the document that operation started from
    ast,      \* the type declaration (syn::DeriveInput) being resolved, if any
    errors,   \* ASTResult: the errors recorded while resolving it
    container \* what ASTContainer::from_ast returned for it

docVars == <<doc, work, open, pc, call, nops, outcome, opens, last, pre>>
astVars == <<ast, errors, container>>
vars == <<doc, work, open, pc, call, nops, outcome, opens, last, pre,
          ast, errors, container>>

-----------------------------------------------------------------------------
(* Bounds of the model *)

\* most nodes (root included) a document may hold
MaxNodes == 3
\* most operations one with_transact_mut closure performs when threads run
\* concurrently
MaxOps == 2
\* most fields a type declaration has
MaxFields == 3

Threads == {"t1", "t2"}
Keys == {"a", "cfg"}
Scalars == {1}
Nums == {1, 2}
ArrayPayloads == {<<1, 2>>, <<2>>}
Root == 0

-----------------------------------------------------------------------------
(* The document engine's data: nodes, map entries, preliminary values *)

\* an entry of a map node: nothing, a scalar (Value::Any), or a nested node
Absent == [t |-> "none", v |-> 0, id |-> 0]
AnyV(n) == [t |-> "any", v |-> n, id |-> 0]
Ref(i) == [t |-> "ref", v |-> 0, id |-> i]

EmptyEntries == [k \in Keys |-> Absent]
MapNode(e) == [kind |-> "map", entries |-> e, items |-> <<>>]
ArrayNode(s) == [kind |-> "array", entries |-> EmptyEntries, items |-> s]
TextNode == [kind |-> "text", entries |-> EmptyEntries, items |-> <<>>]

\* values handed to Map::insert (Prelim): scalar, TextPrelim, ArrayPrelim, MapPrelim
PAny(n) == [p |-> "any", v |-> n, items |-> <<>>, entries |-> EmptyEntries]
TextPrelim == [p |-> "text", v |-> 0, items |-> <<>>, entries |-> EmptyEntries]
ArrayPrelim(s) == [p |-> "array", v |-> 0, items |-> s, entries |-> EmptyEntries]
MapPrelim(e) == [p |-> "map", v |-> 0, items |-> <<>>, entries |-> e]

PrelimNode(p) ==
    CASE p.p = "text" -> TextNode
      [] p.p = "array" -> ArrayNode(p.items)
      [] OTHER -> MapNode(p.entries)

\* the smallest node id not in use
\* (ids of nodes of the committed document are in use too: a node id is never
\* given to two nodes a handle can name)
InUse(nodes) == DOMAIN nodes \cup DOMAIN doc \cup DOMAIN work

Fresh(nodes) ==
    CHOOSE i \in 0..Cardinality(InUse(nodes)) :
        /\ i \notin InUse(nodes)
        /\ \A j \in 0..(i - 1) : j \in InUse(nodes)

Children(nodes, i) ==
    {nodes[i].entries[k].id : k \in {k \in Keys : nodes[i].entries[k].t = "ref"}}

RECURSIVE ReachFrom(_, _, _)
ReachFrom(nodes, frontier, seen) ==
    IF frontier = {} THEN seen
    ELSE LET nxt == UNION {Children(nodes, i) : i \in frontier} \ (seen \cup frontier)
         IN ReachFrom(nodes, nxt, seen \cup frontier)

\* a replaced value is deleted by the engine: only nodes under the root stay
Collect(nodes) ==
    LET live == ReachFrom(nodes, {Root}, {})
    IN [i \in live |-> nodes[i]]

MapIds(nodes) == {i \in DOMAIN nodes : nodes[i].kind = "map"}

\* Node ids are names only.  Whenever no returned handle is outstanding the
\* nodes are renumbered in document order (the transaction's document first,
\* then what only the committed document still holds), so that one document
\* is one state whatever the order its nodes were made in.
KeySeq == <<"a", "cfg">>

RECURSIVE Dfs(_, _)
RECURSIVE DfsKeys(_, _, _)
Dfs(nodes, i) == <<i>> \o DfsKeys(nodes, i, 1)

DfsKeys(nodes, i, n) ==
    IF n > Len(KeySeq) THEN <<>>
    ELSE LET e == nodes[i].entries[KeySeq[n]]
         IN (IF e.t = "ref" THEN Dfs(nodes, e.id) ELSE <<>>) \o DfsKeys(nodes, i, n + 1)

Numbering(w, d) ==
    LET sw == Dfs(w, Root)
        sd == SelectSeq(Dfs(d, Root), LAMBDA i : i \notin DOMAIN w)
        all == sw \o sd
    IN [i \in DOMAIN w \cup DOMAIN d |-> (CHOOSE n \in DOMAIN all : all[n] = i) - 1]

Renumber(nodes, f) ==
    [j \in {f[i] : i \in DOMAIN nodes} |->
        LET i == CHOOSE x \in DOMAIN nodes : f[x] = j
        IN [nodes[i] EXCEPT !.entries =
               [k \in Keys |-> IF @[k].t = "ref" THEN Ref(f[@[k].id]) ELSE @[k]]]]

\* yrs Map::get
Map_get(nodes, h, key) == nodes[h].entries[key]

\* yrs Map::insert: replaces what key held; a Prelim of a node kind makes a new node.
\* Result: the new document and the id of the node made (Root's id when a scalar).
Map_insert(nodes, h, key, p) ==
    IF p.p = "any"
    THEN [nodes |-> Collect([nodes EXCEPT ![h].entries[key] = AnyV(p.v)]), id |-> Root]
    ELSE LET id == Fresh(nodes)
             ext == (id :> PrelimNode(p)) @@ nodes
         IN [nodes |-> Collect([ext EXCEPT ![h].entries[key] = Ref(id)]), id |-> id]

\* YrsValueExtension: the kind of node a looked-up value is, "none" for no node
KindAt(nodes, h, key) ==
    LET e == Map_get(nodes, h, key)
    IN IF e.t = "ref" THEN nodes[e.id].kind ELSE "none"

-----------------------------------------------------------------------------
(* Values: the engine's generic value (Any), serde_json::Value, typed structs *)

\* lib0 Any, as yrs' ToJson::to_json produces it
ANum(n) == [a |-> "num", n |-> n, items |-> <<>>, fields |-> <<>>]
AStr == [a |-> "str", n |-> 0, items |-> <<>>, fields |-> <<>>]
AArr(s) == [a |-> "arr", n |-> 0, items |-> s, fields |-> <<>>]
AMap(f) == [a |-> "map", n |-> 0, items |-> <<>>, fields |-> f]

\* serde_json::Value
JNum(n) == [j |-> "num", n |-> n, items |-> <<>>, fields |-> <<>>]
JStr == [j |-> "str", n |-> 0, items |-> <<>>, fields |-> <<>>]
JArr(s) == [j |-> "arr", n |-> 0, items |-> s, fields |-> <<>>]
JObj(f) == [j |-> "obj", n |-> 0, items |-> <<>>, fields |-> f]

\* ToJson::to_json of the node with id i: the full subtree as an Any
RECURSIVE to_json(_, _)
to_json(nodes, i) ==
    LET nd == nodes[i]
    IN CASE nd.kind = "map" ->
              AMap([k \in {k \in Keys : nd.entries[k].t # "none"} |->
                        IF nd.entries[k].t = "any"
                        THEN ANum(nd.entries[k].v)
                        ELSE to_json(nodes, nd.entries[k].id)])
         [] nd.kind = "array" ->
              AArr([x \in DOMAIN nd.items |-> ANum(nd.items[x])])
         [] OTHER -> AStr

\* util::any_to_json_value: maps -> objects, arrays -> arrays, text -> string
RECURSIVE any_to_json_value(_)
any_to_json_value(any) ==
    CASE any.a = "map" ->
             JObj([k \in DOMAIN any.fields |-> any_to_json_value(any.fields[k])])
      [] any.a = "arr" ->
             JArr([x \in DOMAIN any.items |-> any_to_json_value(any.items[x])])
      [] any.a = "num" -> JNum(any.n)
      [] OTHER -> JStr

\* The application types T used with insert_json / get_json (serde structs):
\*   Cfg { a: i64 }   Tags { a: Vec<i64> }   Wrap { cfg: Cfg }
\*   Mixed { a: i64, cfg: Vec<i64> }
Types == {"Cfg", "Tags", "Wrap", "Mixed"}

Schema(T) ==
    CASE T = "Cfg" -> [k \in {"a"} |-> "num"]
      [] T = "Tags" -> [k \in {"a"} |-> "arr"]
      [] T = "Wrap" -> [k \in {"cfg"} |-> "Cfg"]
      [] OTHER -> [k \in {"a", "cfg"} |-> IF k = "a" THEN "num" ELSE "arr"]

CfgVals == {[a |-> n] : n \in Nums}
TagsVals == {[a |-> s] : s \in ArrayPayloads}
WrapVals == {[cfg |-> c] : c \in CfgVals}
MixedVals == {[a |-> n, cfg |-> s] : n \in {1}, s \in ArrayPayloads}

Vals(T) ==
    CASE T = "Cfg" -> CfgVals
      [] T = "Tags" -> TagsVals
      [] T = "Wrap" -> WrapVals
      [] OTHER -> MixedVals

\* serde_json::to_value(&v) for v: T
RECURSIVE Encode(_, _)
Encode(T, v) ==
    JObj([f \in DOMAIN Schema(T) |->
            CASE Schema(T)[f] = "num" -> JNum(v[f])
              [] Schema(T)[f] = "arr" -> JArr([x \in DOMAIN v[f] |-> JNum(v[f][x])])
              [] OTHER -> Encode(Schema(T)[f], v[f])])

\* serde_json::from_value::<T>: every field of T present with the right shape
\* (fields T does not declare are ignored)
RECURSIVE Decodable(_, _)
Decodable(T, json) ==
    /\ json.j = "obj"
    /\ \A f \in DOMAIN Schema(T) :
          /\ f \in DOMAIN json.fields
          /\ CASE Schema(T)[f] = "num" -> json.fields[f].j = "num"
               [] Schema(T)[f] = "arr" ->
                     /\ json.fields[f].j = "arr"
                     /\ \A x \in DOMAIN json.fields[f].items :
                            json.fields[f].items[x].j = "num"
               [] OTHER -> Decodable(Schema(T)[f], json.fields[f])

RECURSIVE Decode(_, _)
Decode(T, json) ==
    [f \in DOMAIN Schema(T) |->
        CASE Schema(T)[f] = "num" -> json.fields[f].n
          [] Schema(T)[f] = "arr" ->
                [x \in DOMAIN json.fields[f].items |-> json.fields[f].items[x].n]
          [] OTHER -> Decode(Schema(T)[f], json.fields[f])]

-----------------------------------------------------------------------------
(* Return values of the wrapper's methods *)

None == [tag |-> "none", id |-> 0, ty |-> "", val |-> <<>>]
Unit == [tag |-> "unit", id |-> 0, ty |-> "", val |-> <<>>]
Handle(i) == [tag |-> "handle", id |-> i, ty |-> "", val |-> <<>>]
SomeV(T, v) == [tag |-> "value", id |-> 0, ty |-> T, val |-> v]
JsonR(j) == [tag |-> "json", id |-> 0, ty |-> "", val |-> j]
StrR(s) == [tag |-> "str", id |-> 0, ty |-> "", val |-> s]
\* no value: the call panicked
PanicR == [tag |-> "panic", id |-> 0, ty |-> "", val |-> <<>>]

\* A type serde_json cannot serialize: Keyed, a map whose keys are not strings
Unserializable == {"Keyed"}
KeyedVals == {[a |-> 1]}

\* serde_json::to_value(&value) is Ok
to_value_ok(T, v) == T \notin Unserializable

-----------------------------------------------------------------------------
(* MapRefWrapper's methods as functions of the document the transaction sees. *)
(* Each yields the document after the call and the value returned.            *)

\* an insert that wrote the map anew with the one entry
insert_alone_with_txn(nodes, h, key, p) ==
    [nodes |-> Map_insert([nodes EXCEPT ![h].entries = EmptyEntries], h, key, p).nodes,
     ret |-> Unit]

insert_with_txn(nodes, h, key, p) ==
    [nodes |-> Map_insert(nodes, h, key, p).nodes, ret |-> Unit]

\* a clone that made a node of its own with the same content
MapRefWrapper_clone_deep(nodes, h) ==
    [nodes |-> (Fresh(nodes) :> nodes[h]) @@ nodes, ret |-> Handle(Fresh(nodes))]

\* #[derive(Clone)]: the clone holds the same map_ref
MapRefWrapper_clone(nodes, h) == [nodes |-> nodes, ret |-> Handle(h)]

insert_text_with_txn(nodes, h, key) ==
    LET r == Map_insert(nodes, h, key, TextPrelim)
    IN [nodes |-> r.nodes, ret |-> Handle(r.id)]

insert_map_with_txn(nodes, h, key, e) ==
    [nodes |-> Map_insert(nodes, h, key, MapPrelim(e)).nodes, ret |-> Unit]

insert_array_with_txn(nodes, h, key, values) ==
    LET r == Map_insert(nodes, h, key, ArrayPrelim(values))
    IN [nodes |-> r.nodes, ret |-> Handle(r.id)]

\* a create-if-absent that inserted a new array whatever the key held
create_array_always_with_txn(nodes, h, key, values) ==
    LET r == Map_insert(nodes, h, key, ArrayPrelim(values))
    IN [nodes |-> r.nodes, ret |-> Handle(r.id)]

\* a create-if-absent that inserted a new map whatever the key held
create_map_always_with_txn(nodes, h, key) ==
    LET r == Map_insert(nodes, h, key, MapPrelim(EmptyEntries))
    IN [nodes |-> r.nodes, ret |-> Handle(r.id)]

\* MapRefExtension::create_array_if_not_exist_with_txn
MapRefExtension_create_array_if_not_exist_with_txn(nodes, h, key, values) ==
    IF KindAt(nodes, h, key) = "array"
    THEN [nodes |-> nodes, id |-> Map_get(nodes, h, key).id]
    ELSE Map_insert(nodes, h, key, ArrayPrelim(values))

create_array_if_not_exist_with_txn(nodes, h, key, values) ==
    LET r == MapRefExtension_create_array_if_not_exist_with_txn(nodes, h, key, values)
    IN [nodes |-> r.nodes, ret |-> Handle(r.id)]

\* MapRefExtension::create_map_if_not_exist_with_txn
MapRefExtension_create_map_if_not_exist_with_txn(nodes, h, key) ==
    IF KindAt(nodes, h, key) = "map"
    THEN [nodes |-> nodes, id |-> Map_get(nodes, h, key).id]
    ELSE Map_insert(nodes, h, key, MapPrelim(EmptyEntries))

create_map_with_txn_if_not_exist(nodes, h, key) ==
    LET r == MapRefExtension_create_map_if_not_exist_with_txn(nodes, h, key)
    IN [nodes |-> r.nodes, ret |-> Handle(r.id)]

create_map_with_txn(nodes, h, key) ==
    LET r == Map_insert(nodes, h, key, MapPrelim(EmptyEntries))
    IN [nodes |-> r.nodes, ret |-> Handle(r.id)]

\* a getter that took whatever node the key holds for a map
get_node_with_txn(nodes, h, key) ==
    LET a == Map_get(nodes, h, key)
    IN IF a.t = "ref" THEN Handle(a.id) ELSE None

get_map_with_txn(nodes, h, key) ==
    LET a == Map_get(nodes, h, key)
    IN IF a.t = "ref" /\ nodes[a.id].kind = "map" THEN Handle(a.id) ELSE None

get_array_ref_with_txn(nodes, h, key) ==
    LET value == Map_get(nodes, h, key)
    IN IF value.t = "none" THEN None
       ELSE IF value.t = "ref" /\ nodes[value.id].kind = "array"
            THEN Handle(value.id)
            ELSE None

get_text_ref_with_txn(nodes, h, key) ==
    LET value == Map_get(nodes, h, key)
    IN IF value.t = "none" THEN None
       ELSE IF value.t = "ref" /\ nodes[value.id].kind = "text"
            THEN Handle(value.id)
            ELSE None

\* a get-or-insert that put a new empty array at the key whatever it held
insert_empty_array_with_txn(nodes, h, key) ==
    LET r == Map_insert(nodes, h, key, ArrayPrelim(<<>>))
    IN [nodes |-> r.nodes, ret |-> Handle(r.id)]

get_or_insert_array_with_txn(nodes, h, key) ==
    LET g == get_array_ref_with_txn(nodes, h, key)
    IN IF g.tag = "handle"
       THEN [nodes |-> nodes, ret |-> g]
       ELSE insert_array_with_txn(nodes, h, key, <<>>)

\* util::insert_json_value_to_map_ref: writes value under key of map node m,
\* an object as a freshly addressed map node filled field by field
RECURSIVE insert_json_value_to_map_ref(_, _, _, _)
RECURSIVE WriteFields(_, _, _, _)
insert_json_value_to_map_ref(nodes, key, value, m) ==
    CASE value.j = "obj" ->
             LET r == Map_insert(nodes, m, key, MapPrelim(EmptyEntries))
             IN WriteFields(r.nodes, r.id, value.fields, DOMAIN value.fields)
      [] value.j = "arr" ->
             Map_insert(nodes, m, key,
                        ArrayPrelim([x \in DOMAIN value.items |-> value.items[x].n])).nodes
      [] value.j = "num" -> Map_insert(nodes, m, key, PAny(value.n)).nodes
      [] OTHER -> Map_insert(nodes, m, key, TextPrelim).nodes

WriteFields(nodes, m, fields, todo) ==
    IF todo = {} THEN nodes
    ELSE LET k == CHOOSE x \in todo : TRUE
         IN WriteFields(insert_json_value_to_map_ref(nodes, k, fields[k], m),
                        m, fields, todo \ {k})

\* an insert_json that wrote the value's fields into the handle's own map
insert_json_flat(nodes, h, key, T, v) ==
    LET value == Encode(T, v)
    IN [nodes |-> WriteFields(nodes, h, value.fields, DOMAIN value.fields), ret |-> Unit]

\* the closure of insert_json
insert_json(nodes, h, key, T, v) ==
    LET value == Encode(T, v)
    IN [nodes |-> insert_json_value_to_map_ref(nodes, key, value, h), ret |-> Unit]

insert_json_with_txn(nodes, h, key, T, v) ==
    LET value == Encode(T, v)
        map_ref == get_map_with_txn(nodes, h, key)
    IN IF map_ref.tag = "handle"
       THEN [nodes |-> insert_json_value_to_map_ref(nodes, key, value, map_ref.id),
             ret |-> Unit]
       ELSE [nodes |-> nodes, ret |-> Unit]

\* a get_json that handed a failed decode on to its caller
get_json_unwrap_with_txn(nodes, h, key, T) ==
    LET map_ref == get_map_with_txn(nodes, h, key)
    IN IF map_ref.tag # "handle" THEN None
       ELSE LET json_value == any_to_json_value(to_json(nodes, map_ref.id))
            IN IF Decodable(T, json_value)
               THEN SomeV(T, Decode(T, json_value))
               ELSE [tag |-> "error", id |-> 0, ty |-> T, val |-> <<>>]

get_json_with_txn(nodes, h, key, T) ==
    LET map_ref == get_map_with_txn(nodes, h, key)
    IN IF map_ref.tag # "handle" THEN None
       ELSE LET json_value == any_to_json_value(to_json(nodes, map_ref.id))
            IN IF Decodable(T, json_value)
               THEN SomeV(T, Decode(T, json_value))
               ELSE None

\* a projection that answered from what it computed on the new document
to_json_value_cached(nodes, h) ==
    JsonR(any_to_json_value(to_json((Root :> MapNode(EmptyEntries)), Root)))

to_json_value(nodes, h) == JsonR(any_to_json_value(to_json(nodes, h)))

\* lib0 Any::to_json(&mut String): the JSON text, as its tokens in order
RECURSIVE Any_to_json(_)
RECURSIVE JoinItems(_, _)
RECURSIVE JoinFields(_, _, _)
Any_to_json(any) ==
    CASE any.a = "num" -> <<ToString(any.n)>>
      [] any.a = "arr" -> <<"[">> \o JoinItems(any.items, 1) \o <<"]">>
      [] any.a = "map" -> <<"{">> \o JoinFields(any.fields, 1, TRUE) \o <<"}">>
      [] OTHER -> <<"''">>

JoinItems(items, i) ==
    IF i > Len(items) THEN <<>>
    ELSE (IF i > 1 THEN <<",">> ELSE <<>>) \o Any_to_json(items[i])
             \o JoinItems(items, i + 1)

JoinFields(fields, n, first) ==
    IF n > Len(KeySeq) THEN <<>>
    ELSE IF KeySeq[n] \in DOMAIN fields
         THEN (IF first THEN <<>> ELSE <<",">>) \o <<KeySeq[n], ":">>
                  \o Any_to_json(fields[KeySeq[n]]) \o JoinFields(fields, n + 1, FALSE)
         ELSE JoinFields(fields, n + 1, first)

to_json_str(nodes, h) == StrR(Any_to_json(to_json(nodes, h)))

-----------------------------------------------------------------------------
(* Calls *)

NoPrelim == PAny(0)
PArg(p) == [p |-> p, ty |-> "", val |-> <<>>]
TArg(T, v) == [p |-> NoPrelim, ty |-> T, val |-> v]
NoArg == PArg(NoPrelim)

Op(m, h, key, arg) == [m |-> m, h |-> h, key |-> key, arg |-> arg]
NoCall == Op("none", Root, "", NoArg)

\* the methods that take no transaction and open a mutating one themselves
SelfTransacting == {"insert", "insert_array", "insert_map", "insert_json"}

\* a wrapper whose mutating methods each opened a transaction of their own,
\* the *_with_txn ones too
TxnOpensEach(m) ==
    IF m \in {"get_json", "to_json_value", "to_json_str"} THEN [mut |-> 0, read |-> 1]
    ELSE IF m \in {"get_map_with_txn", "get_array_ref_with_txn", "get_text_ref_with_txn"}
         THEN [mut |-> 0, read |-> 0]
         ELSE [mut |-> 1, read |-> 0]

\* the transactions a method's own code opens through the context:
\* collab_ctx.with_transact_mut in insert, insert_json and with_transact_mut
\* (and through it in insert_array, insert_map), collab_ctx.transact in
\* get_json and to_json_value, none in the methods that are given one
TxnOpens(m) ==
    IF m \in SelfTransacting \cup {"with_transact_mut"} THEN [mut |-> 1, read |-> 0]
    ELSE IF m \in {"get_json", "to_json_value", "to_json_str"}
         THEN [mut |-> 0, read |-> 1]
         ELSE [mut |-> 0, read |-> 0]

Opened(o, m) == [mut |-> o.mut + TxnOpens(m).mut, read |-> o.read + TxnOpens(m).read]

\* the *_with_txn method an operation runs, applied to the document nodes
DoOp(nodes, c) ==
    CASE c.m \in {"insert", "insert_with_txn"} ->
             insert_with_txn(nodes, c.h, c.key, c.arg.p)
      [] c.m = "insert_text_with_txn" -> insert_text_with_txn(nodes, c.h, c.key)
      [] c.m \in {"insert_map", "insert_map_with_txn"} ->
             insert_map_with_txn(nodes, c.h, c.key, c.arg.p.entries)
      [] c.m \in {"insert_array", "insert_array_with_txn"} ->
             insert_array_with_txn(nodes, c.h, c.key, c.arg.p.items)
      [] c.m = "create_array_if_not_exist_with_txn" ->
             create_array_if_not_exist_with_txn(nodes, c.h, c.key, c.arg.p.items)
      [] c.m = "create_map_with_txn_if_not_exist" ->
             create_map_with_txn_if_not_exist(nodes, c.h, c.key)
      [] c.m = "create_map_with_txn" -> create_map_with_txn(nodes, c.h, c.key)
      [] c.m = "get_or_insert_array_with_txn" ->
             get_or_insert_array_with_txn(nodes, c.h, c.key)
      [] c.m = "get_map_with_txn" ->
             [nodes |-> nodes, ret |-> get_map_with_txn(nodes, c.h, c.key)]
      [] c.m = "get_array_ref_with_txn" ->
             [nodes |-> nodes, ret |-> get_array_ref_with_txn(nodes, c.h, c.key)]
      [] c.m = "get_text_ref_with_txn" ->
             [nodes |-> nodes, ret |-> get_text_ref_with_txn(nodes, c.h, c.key)]
      [] c.m = "insert_json" ->
             insert_json(nodes, c.h, c.key, c.arg.ty, c.arg.val)
      [] c.m = "insert_json_with_txn" ->
             insert_json_with_txn(nodes, c.h, c.key, c.arg.ty, c.arg.val)
      [] c.m \in {"get_json", "get_json_with_txn"} ->
             [nodes |-> nodes, ret |-> get_json_with_txn(nodes, c.h, c.key, c.arg.ty)]
      [] c.m = "to_json_str" -> [nodes |-> nodes, ret |-> to_json_str(nodes, c.h)]
      [] c.m = "clone" -> MapRefWrapper_clone(nodes, c.h)
      [] OTHER -> [nodes |-> nodes, ret |-> to_json_value(nodes, c.h)]

\* the record of an executed operation: who, what, and the value returned
Done(t, c, r) == [t |-> t, m |-> c.m, h |-> c.h, key |-> c.key, arg |-> c.arg, ret |-> r]
NoLast == Done("t1", NoCall, Unit)
EmptyDoc == (Root :> MapNode(EmptyEntries))

-----------------------------------------------------------------------------
(* collab-derive: resolving a type declaration (internal/ast.rs) *)

\* a nested meta item of a field attribute: its attribute's namespace, its
\* name, the kind of literal it is given and, for a string, the literal
TyStr(lit) == [ns |-> "yrs", name |-> "ty", lit |-> "str", s |-> lit]
TyInt == [ns |-> "yrs", name |-> "ty", lit |-> "int", s |-> ""]
OtherOpt == [ns |-> "yrs", name |-> "key", lit |-> "str", s |-> "x"]
Foreign == [ns |-> "serde", name |-> "rename", lit |-> "str", s |-> "y"]

Lits == {"Text", "Map"}
MetaItems == {TyStr(l) : l \in Lits} \cup {TyInt, OtherOpt, Foreign}

\* the attributes a field is declared with, as the list of their meta items
AttrLists ==
    {<<>>} \cup {<<i>> : i \in MetaItems}
           \cup {<<OtherOpt, TyStr("Text")>>, <<TyInt, OtherOpt>>, <<Foreign, TyStr("Map")>>}

Field(attrs) == [attrs |-> attrs]
FieldLists == UNION {[1..n -> {Field(l) : l \in AttrLists}] : n \in 0..MaxFields}

\* syn::DeriveInput: the shape of the declaration and its fields (an enum's
\* are those of its variant)
DeriveInputs == {[data |-> d, fields |-> fs] : d \in {"struct", "union", "enum"},
                                               fs \in FieldLists}
NoAst == [data |-> "", fields |-> <<>>]

\* Option<LitStr>
NoTag == [some |-> FALSE, s |-> ""]
SomeTag(lit) == [some |-> TRUE, s |-> lit]

\* Option<ASTContainer>
NoContainer == [some |-> FALSE, data |-> "", fields |-> <<>>]
SomeContainer(data, fields) == [some |-> TRUE, data |-> data, fields |-> fields]

\* ASTResult::error_spanned_by: one more error, on what it was found
error_spanned_by(ast_result, on, msg) == Append(ast_result, [on |-> on, msg |-> msg])

\* get_yrs_nested_meta: the meta items of the attributes named yrs
get_yrs_nested_meta(attrs) == SelectSeq(attrs, LAMBDA i : i.ns = "yrs")

\* the loop of YrsAttribute::from_ast over the meta items
RECURSIVE YrsAttribute_items(_, _, _)
YrsAttribute_items(ast_result, items, ty) ==
    IF items = <<>> THEN [ast_result |-> ast_result, ty |-> ty]
    ELSE LET meta_item == Head(items)
         IN IF meta_item.name = "ty"
            THEN YrsAttribute_items(ast_result, Tail(items),
                                    IF meta_item.lit = "str" THEN SomeTag(meta_item.s)
                                    ELSE ty)
            ELSE YrsAttribute_items(
                     error_spanned_by(ast_result, "meta",
                                      "unexpected meta in field attribute"),
                     Tail(items), ty)

YrsAttribute_from_ast(ast_result, field) ==
    YrsAttribute_items(ast_result, get_yrs_nested_meta(field.attrs), NoTag)

ASTField_new(ast_result, field, index) ==
    LET a == YrsAttribute_from_ast(ast_result, field)
    IN [ast_result |-> a.ast_result, field |-> [member |-> index, yrs_attr |-> a.ty]]

\* struct_from_ast / enum_from_ast: every field in turn, whatever the errors
RECURSIVE fields_from_ast(_, _, _, _)
fields_from_ast(ast_result, fields, index, done) ==
    IF index > Len(fields) THEN [ast_result |-> ast_result, fields |-> done]
    ELSE LET f == ASTField_new(ast_result, fields[index], index)
         IN fields_from_ast(f.ast_result, fields, index + 1, Append(done, f.field))

\* a from_ast that looked at a union's fields before it rejected it
ASTContainer_from_ast_inspecting(ast_result, input) ==
    LET data == fields_from_ast(ast_result, input.fields, 1, <<>>)
    IN IF input.data = "union"
       THEN [ast_result |-> error_spanned_by(data.ast_result, "container",
                                             "Does not support derive for unions"),
             ret |-> NoContainer]
       ELSE [ast_result |-> data.ast_result,
             ret |-> SomeContainer(input.data, data.fields)]

ASTContainer_from_ast(ast_result, input) ==
    IF input.data = "union"
    THEN [ast_result |-> error_spanned_by(ast_result, "container",
                                          "Does not support derive for unions"),
          ret |-> NoContainer]
    ELSE LET data == fields_from_ast(ast_result, input.fields, 1, <<>>)
         IN [ast_result |-> data.ast_result,
             ret |-> SomeContainer(input.data, data.fields)]

-----------------------------------------------------------------------------
(* The transaction context *)

\* CollabContext::with_transact_mut, entering: the mutating transaction opens
\* once no other is open
CollabContext_open(t) ==
    /\ open = {}
    /\ open' = open \cup {t}

\* CollabContext::with_transact_mut, leaving: the scope closes on every exit
\* path, committing what the closure wrote and freeing the slot
CollabContext_close(t) ==
    /\ doc' = work
    /\ open' = open \ {t}

\* a wrapper that opened a transaction on the document itself, past the context
with_transact_mut_direct(t) == open' = open \cup {t}

\* a scope that closed only when its closure returned normally
with_transact_mut_exit_on_success(t) ==
    IF outcome[t] = "ok" THEN CollabContext_close(t)
    ELSE doc' = doc /\ open' = open

\* MapRefWrapper::with_transact_mut delegates to the context
with_transact_mut_enter(t) == CollabContext_open(t)
with_transact_mut_exit(t) == CollabContext_close(t)

-----------------------------------------------------------------------------
(* Actions *)

Init ==
    /\ doc = EmptyDoc
    /\ work = doc
    /\ open = {}
    /\ pc = [t \in Threads |-> "idle"]
    /\ call = [t \in Threads |-> NoCall]
    /\ nops = [t \in Threads |-> 0]
    /\ outcome = [t \in Threads |-> "ok"]
    /\ opens = [t \in Threads |-> [mut |-> 0, read |-> 0]]
    /\ last = NoLast
    /\ pre = EmptyDoc
    /\ ast = NoAst
    /\ errors = <<>>
    /\ container = NoContainer

\* the derive macro resolves a declaration: ASTContainer::from_ast on a new
\* ASTResult
Derive(input) ==
    /\ ast = NoAst
    /\ ast' = input
    /\ LET r == ASTContainer_from_ast(<<>>, input)
       IN /\ errors' = r.ast_result
          /\ container' = r.ret
    /\ UNCHANGED docVars

\* the macro is done with the declaration
DeriveDone ==
    /\ ast # NoAst
    /\ ast' = NoAst
    /\ errors' = <<>>
    /\ container' = NoContainer
    /\ UNCHANGED docVars

\* a thread calls a method that needs the mutation slot
Request(t, c) ==
    /\ pc[t] = "idle"
    /\ c.h \in MapIds(doc)
    /\ pc' = [pc EXCEPT ![t] = "waiting"]
    /\ call' = [call EXCEPT ![t] = c]
    /\ UNCHANGED <<doc, work, open, nops, outcome, opens, last, pre>>

\* a context that only ever granted the slot to thread t1
AcquireFirstOnly(t) ==
    /\ t = "t1"
    /\ pc[t] = "waiting"
    /\ with_transact_mut_enter(t)
    /\ pc' = [pc EXCEPT ![t] = "in_txn"]
    /\ opens' = [opens EXCEPT ![t] = Opened(@, call[t].m)]
    /\ UNCHANGED <<doc, work, call, nops, outcome, last, pre>>

\* the waiting thread is granted the slot and its closure starts
Acquire(t) ==
    /\ pc[t] = "waiting"
    /\ with_transact_mut_enter(t)
    /\ pc' = [pc EXCEPT ![t] = "in_txn"]
    /\ opens' = [opens EXCEPT ![t] = Opened(@, call[t].m)]
    /\ UNCHANGED <<doc, work, call, nops, outcome, last, pre>>

\* one *_with_txn operation of a with_transact_mut closure
TxnStep(t, c) ==
    /\ pc[t] = "in_txn"
    /\ call[t].m = "with_transact_mut"
    /\ last.m = "none"
    /\ LET r == DoOp(work, c)
       IN /\ Cardinality(DOMAIN r.nodes) <= MaxNodes
          /\ work' = r.nodes
          /\ last' = Done(t, c, r.ret)
    /\ pre' = work
    /\ opens' = [opens EXCEPT ![t] = Opened(@, c.m)]
    /\ UNCHANGED <<doc, open, pc, call, outcome>>

\* the closure goes on after an operation, done with what it returned
Continue(t) ==
    /\ pc[t] = "in_txn"
    /\ call[t].m = "with_transact_mut"
    /\ last.m # "none"
    /\ last.t = t
    /\ last' = NoLast
    /\ pre' = EmptyDoc
    /\ LET f == Numbering(work, doc)
       IN /\ work' = Renumber(work, f)
          /\ doc' = Renumber(doc, f)
          /\ call' = [u \in Threads |-> [call[u] EXCEPT !.h = f[@]]]
    /\ UNCHANGED <<open, pc, nops, outcome, opens>>

\* the closure of a with_transact_mut call returns
ClosureReturn(t) ==
    /\ pc[t] = "in_txn"
    /\ call[t].m = "with_transact_mut"
    /\ last.m = "none"
    /\ pc' = [pc EXCEPT ![t] = "exiting"]
    /\ UNCHANGED <<doc, work, open, call, nops, outcome, opens, last, pre>>

\* the closure of a with_transact_mut call fails
ClosurePanic(t) ==
    /\ pc[t] = "in_txn"
    /\ call[t].m = "with_transact_mut"
    /\ last.m = "none"
    /\ pc' = [pc EXCEPT ![t] = "exiting"]
    /\ outcome' = [outcome EXCEPT ![t] = "panic"]
    /\ UNCHANGED <<doc, work, open, call, nops, opens, last, pre>>

\* the closure of insert / insert_array / insert_map / insert_json:
\* its single operation, then it returns
SelfBody(t) ==
    /\ pc[t] = "in_txn"
    /\ call[t].m \in SelfTransacting
    /\ last.m = "none"
    /\ LET r == DoOp(work, call[t])
       IN /\ work' = r.nodes
          /\ last' = Done(t, call[t], r.ret)
    /\ pre' = work
    /\ pc' = [pc EXCEPT ![t] = "exiting"]
    /\ UNCHANGED <<doc, open, call, nops, outcome, opens>>

\* the transaction scope closes; then the call returns to its caller, or the
\* failure reaches it
Release(t) ==
    /\ pc[t] = "exiting"
    /\ with_transact_mut_exit(t)
    /\ pc' = [pc EXCEPT ![t] = "done"]
    /\ UNCHANGED <<work, call, nops, outcome, opens, last, pre>>

\* an insert_json that dropped a value it could not serialize
insert_json_skips(t, c) ==
    /\ pc[t] = "idle"
    /\ c.h \in MapIds(doc)
    /\ last.m = "none"
    /\ ~to_value_ok(c.arg.ty, c.arg.val)
    /\ pc' = [pc EXCEPT ![t] = "done"]
    /\ call' = [call EXCEPT ![t] = c]
    /\ last' = Done(t, c, Unit)
    /\ pre' = doc
    /\ UNCHANGED <<doc, work, open, nops, outcome, opens>>

\* insert_json on a value that does not serialize: to_value(..).unwrap()
\* panics before the transaction is asked for
insert_json_unwrap_fails(t, c) ==
    /\ pc[t] = "idle"
    /\ c.h \in MapIds(doc)
    /\ last.m = "none"
    /\ ~to_value_ok(c.arg.ty, c.arg.val)
    /\ pc' = [pc EXCEPT ![t] = "done"]
    /\ call' = [call EXCEPT ![t] = c]
    /\ outcome' = [outcome EXCEPT ![t] = "panic"]
    /\ last' = Done(t, c, PanicR)
    /\ pre' = doc
    /\ UNCHANGED <<doc, work, open, nops, opens>>

\* insert_json_with_txn on a value that does not serialize: the unwrap
\* panics inside the caller's closure, which leaves by that panic
insert_json_with_txn_unwrap_fails(t, c) ==
    /\ pc[t] = "in_txn"
    /\ call[t].m = "with_transact_mut"
    /\ last.m = "none"
    /\ ~to_value_ok(c.arg.ty, c.arg.val)
    /\ pc' = [pc EXCEPT ![t] = "exiting"]
    /\ outcome' = [outcome EXCEPT ![t] = "panic"]
    /\ last' = Done(t, c, PanicR)
    /\ pre' = work
    /\ UNCHANGED <<doc, work, open, call, nops, opens>>

\* a read transaction that saw what the open mutating transaction has written
ReadCallDirty(t, c) ==
    /\ pc[t] = "idle"
    /\ c.h \in MapIds(doc)
    /\ last.m = "none"
    /\ pc' = [pc EXCEPT ![t] = "done"]
    /\ call' = [call EXCEPT ![t] = c]
    /\ opens' = [opens EXCEPT ![t] = Opened(@, c.m)]
    /\ last' = Done(t, c, DoOp(work, c).ret)
    /\ pre' = doc
    /\ UNCHANGED <<doc, work, open, nops, outcome>>

\* a call that reads through a read transaction it opens itself
\* (get_json, to_json_value) or one it is given (the typed getters)
ReadCall(t, c) ==
    /\ pc[t] = "idle"
    /\ c.h \in MapIds(doc)
    /\ last.m = "none"
    /\ pc' = [pc EXCEPT ![t] = "done"]
    /\ call' = [call EXCEPT ![t] = c]
    /\ opens' = [opens EXCEPT ![t] = Opened(@, c.m)]
    /\ last' = Done(t, c, DoOp(doc, c).ret)
    /\ pre' = doc
    /\ UNCHANGED <<doc, work, open, nops, outcome>>

\* the caller goes on after a call, done with what it returned
Return(t) ==
    /\ pc[t] = "done"
    /\ pc' = [pc EXCEPT ![t] = "idle"]
    /\ nops' = [nops EXCEPT ![t] = 0]
    /\ outcome' = [outcome EXCEPT ![t] = "ok"]
    /\ opens' = [opens EXCEPT ![t] = [mut |-> 0, read |-> 0]]
    /\ last' = IF last.t = t THEN NoLast ELSE last
    /\ pre' = IF last.t = t THEN EmptyDoc ELSE pre
    /\ LET f == IF last.t = t THEN Numbering(work, doc)
                              ELSE [i \in DOMAIN work \cup DOMAIN doc |-> i]
       IN /\ work' = Renumber(work, f)
          /\ doc' = Renumber(doc, f)
          /\ call' = [u \in Threads |->
                         IF u = t THEN NoCall ELSE [call[u] EXCEPT !.h = f[@]]]
    /\ UNCHANGED open

-----------------------------------------------------------------------------
(* What the callers do *)

MapPayloads == {EmptyEntries, [EmptyEntries EXCEPT !["a"] = AnyV(1)]}

\* any *_with_txn method, on any handle of a live map node
ClosureOp(t) ==
    /\ UNCHANGED nops
    /\ \E h \in MapIds(work), key \in Keys :
           \/ \E n \in Scalars : TxnStep(t, Op("insert_with_txn", h, key, PArg(PAny(n))))
           \/ TxnStep(t, Op("insert_text_with_txn", h, key, NoArg))
           \/ \E e \in MapPayloads :
                 TxnStep(t, Op("insert_map_with_txn", h, key, PArg(MapPrelim(e))))
           \/ \E s \in ArrayPayloads :
                 TxnStep(t, Op("insert_array_with_txn", h, key, PArg(ArrayPrelim(s))))
           \/ \E s \in ArrayPayloads :
                 TxnStep(t, Op("create_array_if_not_exist_with_txn", h, key,
                               PArg(ArrayPrelim(s))))
           \/ TxnStep(t, Op("create_map_with_txn_if_not_exist", h, key, NoArg))
           \/ TxnStep(t, Op("create_map_with_txn", h, key, NoArg))
           \/ TxnStep(t, Op("get_or_insert_array_with_txn", h, key, NoArg))
           \/ TxnStep(t, Op("get_map_with_txn", h, key, NoArg))
           \/ TxnStep(t, Op("get_array_ref_with_txn", h, key, NoArg))
           \/ TxnStep(t, Op("get_text_ref_with_txn", h, key, NoArg))
           \/ \E T \in Types : \E v \in Vals(T) :
                 TxnStep(t, Op("insert_json_with_txn", h, key, TArg(T, v)))

\* with_transact_mut(f)
CallWithTransactMut(t) == Request(t, Op("with_transact_mut", Root, "", NoArg))

Fits(c) == Cardinality(DOMAIN DoOp(doc, c).nodes) <= MaxNodes

\* insert / insert_array / insert_map / insert_json
CallSelfTransacting(t) ==
    /\ pc[t] = "idle"
    /\ \E h \in MapIds(doc), key \in Keys :
           \/ \E n \in Scalars :
                 LET c == Op("insert", h, key, PArg(PAny(n)))
                 IN Fits(c) /\ Request(t, c)
           \/ \E s \in ArrayPayloads :
                 LET c == Op("insert_array", h, key, PArg(ArrayPrelim(s)))
                 IN Fits(c) /\ Request(t, c)
           \/ \E e \in MapPayloads :
                 LET c == Op("insert_map", h, key, PArg(MapPrelim(e)))
                 IN Fits(c) /\ Request(t, c)
           \/ \E T \in Types : \E v \in Vals(T) :
                 LET c == Op("insert_json", h, key, TArg(T, v))
                 IN Fits(c) /\ Request(t, c)

\* get_json / to_json_value, and the typed getters under a read transaction
CallRead(t) ==
    \E h \in MapIds(doc), key \in Keys :
        \/ \E T \in Types : ReadCall(t, Op("get_json", h, key, TArg(T, <<>>)))
        \/ ReadCall(t, Op("to_json_value", h, key, NoArg))
        \/ ReadCall(t, Op("to_json_str", h, key, NoArg))
        \/ ReadCall(t, Op("get_map_with_txn", h, key, NoArg))
        \/ ReadCall(t, Op("get_array_ref_with_txn", h, key, NoArg))
        \/ ReadCall(t, Op("get_text_ref_with_txn", h, key, NoArg))

\* a closure's operations when threads run concurrently: a few writes and
\* reads on the root map
ConcClosureOp(t) ==
    /\ nops[t] < MaxOps
    /\ nops' = [nops EXCEPT ![t] = @ + 1]
    /\ \/ \E n \in Nums : TxnStep(t, Op("insert_with_txn", Root, "a", PArg(PAny(n))))
       \/ TxnStep(t, Op("get_map_with_txn", Root, "cfg", NoArg))

ConcCallSelfTransacting(t) ==
    \/ Request(t, Op("insert", Root, "a", PArg(PAny(1))))
    \/ Request(t, Op("insert_array", Root, "a", PArg(ArrayPrelim(<<2>>))))
    \/ Request(t, Op("insert_map", Root, "cfg", PArg(MapPrelim(EmptyEntries))))
    \/ Request(t, Op("insert_json", Root, "cfg", TArg("Cfg", [a |-> 1])))

\* Threads t1 and t2 use handles of one document concurrently
Next ==
    /\ UNCHANGED astVars
    /\ \E t \in Threads :
        \/ CallWithTransactMut(t)
        \/ ConcCallSelfTransacting(t)
        \/ Acquire(t)
        \/ ConcClosureOp(t)
        \/ Continue(t)
        \/ ClosureReturn(t)
        \/ ClosurePanic(t)
        \/ SelfBody(t)
        \/ Release(t)
        \/ Return(t)

Spec == Init /\ [][Next]_vars

\* One thread runs a with_transact_mut closure of any length that uses every
\* *_with_txn method, on a document that starts empty
TxnNext ==
    /\ UNCHANGED astVars
    /\ \/ doc = EmptyDoc /\ CallWithTransactMut("t1")
       \/ Acquire("t1")
       \/ ClosureOp("t1")
       \/ Continue("t1")
       \/ ClosureReturn("t1")
       \/ Release("t1")
       \/ Return("t1")

TxnSpec == Init /\ [][TxnNext]_vars

\* One thread uses the methods that open their own transaction
SelfNext ==
    /\ UNCHANGED astVars
    /\ \/ CallSelfTransacting("t1")
       \/ CallRead("t1")
       \/ Acquire("t1")
       \/ SelfBody("t1")
       \/ Release("t1")
       \/ Return("t1")

SelfSpec == Init /\ [][SelfNext]_vars

\* The concurrent threads under a fair scheduler: a thread that can take its
\* next step takes it, and the slot, free again and again, is granted to
\* each thread that waits for it
Fairness ==
    \A t \in Threads :
        /\ WF_vars((ConcClosureOp(t) \/ ClosureReturn(t) \/ ClosurePanic(t))
                   /\ UNCHANGED astVars)
        /\ WF_vars(Continue(t) /\ UNCHANGED astVars)
        /\ WF_vars(SelfBody(t) /\ UNCHANGED astVars)
        /\ WF_vars(Release(t) /\ UNCHANGED astVars)
        /\ WF_vars(Return(t) /\ UNCHANGED astVars)
        /\ SF_vars(Acquire(t) /\ UNCHANGED astVars)

LiveSpec == Init /\ [][Next]_vars /\ Fairness

\* a thread projects the root while others mutate
ConcRead(t) == ReadCall(t, Op("to_json_value", Root, "", NoArg))

\* The concurrent threads, which now also read
ReadNext ==
    \/ Next
    \/ UNCHANGED astVars /\ \E t \in Threads : ConcRead(t)

ReadSpec == Init /\ [][ReadNext]_vars

\* a handle is cloned inside a closure
CloneStep(t) ==
    /\ UNCHANGED nops
    /\ \E h \in MapIds(work) : TxnStep(t, Op("clone", h, "", NoArg))

\* One thread uses handles of nested maps: closures on a document that starts
\* empty, clones, and the self-transacting methods on what was committed
HandleNext ==
    \/ TxnNext
    \/ /\ UNCHANGED astVars
       /\ \/ CallSelfTransacting("t1")
          \/ SelfBody("t1")
          \/ CloneStep("t1")

HandleSpec == Init /\ [][HandleNext]_vars

\* insert_json with values that serialize and values that do not
EncCallInsertJson(t) ==
    /\ pc[t] = "idle"
    /\ \E h \in MapIds(doc), key \in Keys :
           \/ \E T \in Types : \E v \in Vals(T) :
                 LET c == Op("insert_json", h, key, TArg(T, v))
                 IN Fits(c) /\ Request(t, c)
           \/ \E v \in KeyedVals :
                 insert_json_unwrap_fails(t, Op("insert_json", h, key, TArg("Keyed", v)))

\* insert_json_with_txn in a closure, likewise
EncClosureOp(t) ==
    /\ UNCHANGED nops
    /\ \E h \in MapIds(work), key \in Keys :
           \/ \E T \in Types : \E v \in Vals(T) :
                 TxnStep(t, Op("insert_json_with_txn", h, key, TArg(T, v)))
           \/ \E v \in KeyedVals :
                 insert_json_with_txn_unwrap_fails(
                     t, Op("insert_json_with_txn", h, key, TArg("Keyed", v)))

\* One thread writes structured values, some of which do not serialize
EncNext ==
    /\ UNCHANGED astVars
    /\ \/ EncCallInsertJson("t1")
       \/ CallWithTransactMut("t1")
       \/ Acquire("t1")
       \/ SelfBody("t1")
       \/ EncClosureOp("t1")
       \/ Continue("t1")
       \/ ClosureReturn("t1")
       \/ Release("t1")
       \/ Return("t1")

EncSpec == Init /\ [][EncNext]_vars

\* The derive macro resolves one type declaration after another
AstNext ==
    \/ \E input \in DeriveInputs : Derive(input)
    \/ DeriveDone

AstSpec == Init /\ [][AstNext]_vars

-----------------------------------------------------------------------------
(* Transaction discipline *)

InScope(t) == pc[t] \in {"in_txn", "exiting"}

\* C1: at most one mutating transaction is open on the document at a time;
\* a second thread's closure does not run while the first's scope is open, so
\* an operation of a closure is always that of the one thread holding the slot
C1_MutualExclusion ==
    /\ Cardinality(open) <= 1
    /\ \A t \in Threads : InScope(t) <=> t \in open
    /\ \A t, u \in Threads : InScope(t) /\ InScope(u) => t = u
    /\ (last.m # "none" /\ InScope(last.t)) => open = {last.t}

\* t1 is inside its closure, having written, while t2 has called and waits
C1_Witness ==
    /\ pc["t1"] = "in_txn"
    /\ pc["t2"] = "waiting"
    /\ nops["t1"] > 0
    /\ last.t = "t1"
    /\ work # doc

\* C2: when with_transact_mut has come back to its caller, by the closure's
\* return at any point or by its failure, the slot is free again and what
\* the closure wrote is committed
C2_ReleasedOnExit ==
    \A t \in Threads :
        pc[t] \in {"idle", "done"} =>
            /\ t \notin open
            /\ (open = {} => doc = work)

\* the closure of t1 failed after writing, and the failure has reached the
\* caller: the slot is free and the other thread now holds it
C2_Witness ==
    /\ pc["t1"] = "done"
    /\ outcome["t1"] = "panic"
    /\ call["t1"].m = "with_transact_mut"
    /\ nops["t1"] > 0
    /\ open = {"t2"}

\* C3: a request made while the slot is held starts only once the slot is
\* free, and under a fair scheduler every waiting request is granted
C3_WaitThenGrant ==
    /\ [][\A t \in Threads :
             (pc[t] = "waiting" /\ pc'[t] = "in_txn") => (open = {} /\ open' = {t})]_vars
    /\ \A t \in Threads : (pc[t] = "waiting") ~> (pc[t] = "in_txn")

\* t2 waits while t1 holds the slot
C3_Witness ==
    /\ pc["t2"] = "waiting"
    /\ open = {"t1"}
    /\ pc["t1"] = "exiting"

-----------------------------------------------------------------------------
(* Create-if-absent and the typed getters, inside one closure *)

\* what the entries of map node h other than key hold, nested nodes included
OtherEntriesKept(before, after, h, key) ==
    \A k \in Keys \ {key} :
        /\ Map_get(after, h, k) = Map_get(before, h, k)
        /\ Map_get(before, h, k).t = "ref" =>
               after[Map_get(before, h, k).id] = before[Map_get(before, h, k).id]

\* C4: create_array_if_not_exist_with_txn returns the array node the key
\* already names and leaves the document as it was (the payload is dropped);
\* otherwise it makes a new array node holding the payload at the key.  Called
\* twice on one key with payloads d1 then d2, the second call returns the
\* first call's node and changes nothing: a new array holds d1
C4_CreateArrayIdempotent ==
    /\ last.m = "create_array_if_not_exist_with_txn" =>
           IF KindAt(pre, last.h, last.key) = "array"
           THEN /\ last.ret = Handle(Map_get(pre, last.h, last.key).id)
                /\ work = pre
           ELSE /\ last.ret.tag = "handle"
                /\ last.ret.id \notin DOMAIN pre
                /\ Map_get(work, last.h, last.key) = Ref(last.ret.id)
                /\ work[last.ret.id] = ArrayNode(last.arg.p.items)
                /\ OtherEntriesKept(pre, work, last.h, last.key)
    /\ (pc["t1"] = "in_txn" /\ last.m = "none") =>
           \A h \in MapIds(work), key \in Keys :
               \A d1 \in ArrayPayloads, d2 \in ArrayPayloads :
                   LET r1 == create_array_if_not_exist_with_txn(work, h, key, d1)
                       r2 == create_array_if_not_exist_with_txn(r1.nodes, h, key, d2)
                   IN /\ r2.ret = r1.ret
                      /\ r2.nodes = r1.nodes
                      /\ KindAt(work, h, key) # "array" =>
                             r2.nodes[r2.ret.id].items = d1

\* the call found an array whose content differs from the payload it was given
C4_Witness ==
    /\ last.m = "create_array_if_not_exist_with_txn"
    /\ KindAt(pre, last.h, last.key) = "array"
    /\ pre[Map_get(pre, last.h, last.key).id].items = <<1, 2>>
    /\ last.arg.p.items = <<2>>
    /\ work[last.ret.id].items = <<1, 2>>

\* C5: create_map_with_txn_if_not_exist returns the map node the key already
\* names and leaves the document as it was; otherwise it makes a new empty
\* map node at the key.  An entry written into the map after a first call is
\* still there, with its value, after a second call on the key
C5_CreateMapIdempotent ==
    /\ last.m = "create_map_with_txn_if_not_exist" =>
           IF KindAt(pre, last.h, last.key) = "map"
           THEN /\ last.ret = Handle(Map_get(pre, last.h, last.key).id)
                /\ work = pre
           ELSE /\ last.ret.tag = "handle"
                /\ last.ret.id \notin DOMAIN pre
                /\ Map_get(work, last.h, last.key) = Ref(last.ret.id)
                /\ work[last.ret.id] = MapNode(EmptyEntries)
                /\ OtherEntriesKept(pre, work, last.h, last.key)
    /\ (pc["t1"] = "in_txn" /\ last.m = "none") =>
           \A h \in MapIds(work), key \in Keys, k \in Keys, n \in Nums :
               LET r1 == create_map_with_txn_if_not_exist(work, h, key)
                   r2 == insert_with_txn(r1.nodes, r1.ret.id, k, PAny(n))
                   r3 == create_map_with_txn_if_not_exist(r2.nodes, h, key)
               IN /\ r3.ret = r1.ret
                  /\ r3.nodes = r2.nodes
                  /\ Map_get(r3.nodes, r3.ret.id, k) = AnyV(n)

\* the call found a map that already had an entry, and the entry is still there
C5_Witness ==
    /\ last.m = "create_map_with_txn_if_not_exist"
    /\ KindAt(pre, last.h, last.key) = "map"
    /\ Map_get(pre, Map_get(pre, last.h, last.key).id, "a") = AnyV(1)
    /\ Map_get(work, last.ret.id, "a") = AnyV(1)

GetterKind ==
    [get_map_with_txn |-> "map", get_array_ref_with_txn |-> "array",
     get_text_ref_with_txn |-> "text"]

\* C6: a typed getter returns a handle exactly when the key holds a node of
\* the getter's kind, and then the handle of that node; it returns None for a
\* key never inserted, a scalar, and a node of another kind; it returns
\* nothing else, and the document is as it was
C6_TypedGetters ==
    last.m \in DOMAIN GetterKind =>
        /\ last.ret.tag \in {"handle", "none"}
        /\ last.ret.tag = "handle" <=> KindAt(pre, last.h, last.key) = GetterKind[last.m]
        /\ last.ret.tag = "handle" => last.ret.id = Map_get(pre, last.h, last.key).id
        /\ work = pre

\* get_map_with_txn on a key that holds an array returned None
C6_Witness ==
    /\ last.m = "get_map_with_txn"
    /\ KindAt(pre, last.h, last.key) = "array"
    /\ last.ret = None
    /\ work = pre

-----------------------------------------------------------------------------
(* Structured values *)

Projection(nodes, i) == any_to_json_value(to_json(nodes, i))

\* C7: after insert_json_with_txn(txn, key, value), whatever the key held,
\* get_map_with_txn(key) returns a map whose projection equals the value
C7_InsertJsonWithTxnOverwrites ==
    last.m = "insert_json_with_txn" =>
        LET g == get_map_with_txn(work, last.h, last.key)
        IN /\ g.tag = "handle"
           /\ Projection(work, g.id) = Encode(last.arg.ty, last.arg.val)

\* C8: once insert_json(k, v) has committed, get_json(k) in a new read
\* transaction returns Some(v), and to_json_value() of the handle holds the
\* serialized v under k
C8_StructuredRoundTrip ==
    (last.m = "insert_json" /\ pc[last.t] = "done") =>
        LET g == get_json_with_txn(doc, last.h, last.key, last.arg.ty)
            j == to_json_value(doc, last.h)
        IN /\ g.tag = "value"
           /\ g.ty = last.arg.ty
           /\ g.val = last.arg.val
           /\ j.tag = "json"
           /\ j.val.j = "obj"
           /\ last.key \in DOMAIN j.val.fields
           /\ j.val.fields[last.key] = Encode(last.arg.ty, last.arg.val)

\* Cfg{a: 1} inserted under "cfg" in a fresh root map has committed, and the
\* root projects to {"cfg": {"a": 1}}
C8_Witness ==
    /\ last.m = "insert_json"
    /\ pc[last.t] = "done"
    /\ pre = EmptyDoc
    /\ last.h = Root
    /\ last.key = "cfg"
    /\ last.arg.ty = "Cfg"
    /\ last.arg.val = [a |-> 1]
    /\ to_json_value(doc, Root).val = JObj(("cfg" :> JObj(("a" :> JNum(1)))))

\* C9: get_json returns None when the key is absent, when it holds anything
\* that is not a map, and when the map's projection does not decode into T;
\* it returns nothing but None or Some, and the document is as it was
C9_GetJsonNone ==
    last.m = "get_json" =>
        /\ last.ret.tag \in {"none", "value"}
        /\ KindAt(pre, last.h, last.key) # "map" => last.ret = None
        /\ (/\ KindAt(pre, last.h, last.key) = "map"
            /\ ~Decodable(last.arg.ty,
                          Projection(pre, Map_get(pre, last.h, last.key).id)))
               => last.ret = None
        /\ last.ret = None => last.ret = get_json_with_txn(EmptyDoc, Root, last.key, last.arg.ty)
        /\ doc = pre
        /\ work = pre

\* get_json::<Cfg> found a map whose field a is an array, and returned None
C9_Witness ==
    /\ last.m = "get_json"
    /\ last.arg.ty = "Cfg"
    /\ KindAt(pre, last.h, last.key) = "map"
    /\ KindAt(pre, Map_get(pre, last.h, last.key).id, "a") = "array"
    /\ last.ret = None

-----------------------------------------------------------------------------
(* Transactions opened per call *)

-----------------------------------------------------------------------------
(* Grouping of writes, and what readers see *)

\* C11: a read transaction sees the committed document only: the writes of a
\* with_transact_mut closure reach it all at once, when the scope closes, and
\* never one by one; each self-transacting call is committed by itself when
\* it returns, so that a reader between two such calls sees the first alone
C11_GroupedWritesAtomic ==
    /\ [](last.m = "to_json_value" => last.ret = to_json_value(pre, last.h))
    /\ [](\A t \in Threads :
            (call[t].m \in SelfTransacting /\ pc[t] = "done" /\ last.t = t /\ open = {})
                => Projection(doc, Root) = Projection(DoOp(pre, call[t]).nodes, Root))
    /\ [][Projection(doc', Root) # Projection(doc, Root) =>
             \E t \in Threads :
                 /\ pc[t] = "exiting"
                 /\ pc'[t] = "done"
                 /\ Projection(doc', Root) = Projection(work, Root)]_vars

\* t1 committed a = 1 by insert, then wrote a = 2 in a closure that is still
\* open; t2 has just read, and saw a = 1
C11_Witness ==
    /\ pc["t1"] = "in_txn"
    /\ call["t1"].m = "with_transact_mut"
    /\ nops["t1"] >= 1
    /\ Projection(work, Root) = JObj(("a" :> JNum(2)))
    /\ last.t = "t2"
    /\ last.m = "to_json_value"
    /\ last.ret = JsonR(JObj(("a" :> JNum(1))))

-----------------------------------------------------------------------------
(* Projections *)

\* serde_json::Value of what a map entry holds
EntryJson(nodes, e) == IF e.t = "any" THEN JNum(e.v) ELSE Projection(nodes, e.id)

\* C12: to_json_value and to_json_str leave the document as it was; they
\* return what the node holds now, entry by entry, so that projecting again
\* with nothing committed in between returns the same; and once insert or
\* insert_array has committed, the projection of the handle holds what was
\* written
C12_PureProjection ==
    /\ last.m \in {"to_json_value", "to_json_str"} =>
           /\ doc = pre
           /\ work = pre
           /\ last.ret = DoOp(doc, Op(last.m, last.h, last.key, last.arg)).ret
    /\ last.m = "to_json_value" =>
           /\ last.ret.tag = "json"
           /\ last.ret.val.j = "obj"
           /\ DOMAIN last.ret.val.fields =
                  {k \in Keys : Map_get(doc, last.h, k).t # "none"}
           /\ \A k \in DOMAIN last.ret.val.fields :
                  last.ret.val.fields[k] = EntryJson(doc, Map_get(doc, last.h, k))
    /\ last.m = "to_json_str" =>
           /\ last.ret.tag = "str"
           /\ Head(last.ret.val) = "{"
           /\ \A k \in Keys :
                  (\E x \in DOMAIN last.ret.val : last.ret.val[x] = k)
                      <=> \E i \in DOMAIN doc : i \in ReachFrom(doc, {last.h}, {})
                                                /\ doc[i].kind = "map"
                                                /\ doc[i].entries[k].t # "none"
    /\ (last.m = "insert" /\ pc[last.t] = "done") =>
           /\ last.key \in DOMAIN to_json_value(doc, last.h).val.fields
           /\ to_json_value(doc, last.h).val.fields[last.key] = JNum(last.arg.p.v)
    /\ (last.m = "insert_array" /\ pc[last.t] = "done") =>
           /\ last.key \in DOMAIN to_json_value(doc, last.h).val.fields
           /\ to_json_value(doc, last.h).val.fields[last.key] =
                  JArr([x \in DOMAIN last.arg.p.items |-> JNum(last.arg.p.items[x])])

\* the text of a root that holds a = 1 and, under cfg, a map with an array
C12_Witness ==
    /\ last.m = "to_json_str"
    /\ last.h = Root
    /\ last.ret = StrR(<<"{", "a", ":", "1", ",", "cfg", ":",
                         "{", "a", ":", "[", "1", ",", "2", "]", "}", "}">>)
    /\ doc = pre

-----------------------------------------------------------------------------
(* Resolving type declarations *)

\* a meta item under yrs that is not ty = "<string literal>"
Malformed(item) == item.ns = "yrs" /\ ~(item.name = "ty" /\ item.lit = "str")
MalformedIn(field) == {x \in DOMAIN field.attrs : Malformed(field.attrs[x])}

\* C13: resolving a struct records one error for each field that carries a
\* malformed attribute, and from_ast yields no container once any error was
\* recorded
C13_ErrorsAccumulated ==
    (ast # NoAst /\ ast.data = "struct") =>
        /\ Len(errors) = Cardinality({i \in DOMAIN ast.fields :
                                         MalformedIn(ast.fields[i]) # {}})
        /\ errors # <<>> => ~container.some

\* C14: for every field, YrsAttribute::from_ast records one error for each
\* item under yrs that is not ty = "<string literal>", yields Some(literal)
\* and no error for a well-formed ty, and yields no tag for a field without a
\* yrs attribute
C14_AttributeGrammar ==
    (ast # NoAst /\ ast.data # "union") =>
        \A i \in DOMAIN ast.fields :
            LET field == ast.fields[i]
                r == YrsAttribute_from_ast(<<>>, field)
            IN /\ Len(r.ast_result) = Cardinality(MalformedIn(field))
               /\ container.fields[i].yrs_attr = r.ty
               /\ \A l \in Lits : field.attrs = <<TyStr(l)>> =>
                      r.ty = SomeTag(l) /\ r.ast_result = <<>>
               /\ get_yrs_nested_meta(field.attrs) = <<>> => r.ty = NoTag

\* C18: a union is rejected with exactly one error, on the container, and no
\* container; nothing is recorded for its fields, whatever their attributes
C18_UnionRejected ==
    (ast # NoAst /\ ast.data = "union") =>
        /\ errors = <<[on |-> "container", msg |-> "Does not support derive for unions"]>>
        /\ container = NoContainer

\* a union of three fields, two of them with a malformed attribute, has been
\* rejected with the one error
C18_Witness ==
    /\ ast.data = "union"
    /\ Len(ast.fields) = 3
    /\ Cardinality({i \in DOMAIN ast.fields : MalformedIn(ast.fields[i]) # {}}) = 2
    /\ Len(errors) = 1
    /\ ~container.some

-----------------------------------------------------------------------------
(* Values that do not serialize *)

\* C15: insert_json and insert_json_with_txn on a value that does not
\* serialize fail towards the caller, with nothing written; insert_json fails
\* before it has opened a transaction, so that the committed document is as
\* it was and the slot is not held
C15_EncodeFailureSurfaces ==
    (last.m \in {"insert_json", "insert_json_with_txn"}
     /\ ~to_value_ok(last.arg.ty, last.arg.val)) =>
        /\ last.ret = PanicR
        /\ outcome[last.t] = "panic"
        /\ pc[last.t] \in {"exiting", "done"}
        /\ work = pre
        /\ last.m = "insert_json" =>
               /\ pc[last.t] = "done"
               /\ opens[last.t] = [mut |-> 0, read |-> 0]
               /\ open = {}
               /\ doc = pre

\* insert_json of a Keyed value on a document that already holds something
\* has failed at its caller
C15_Witness ==
    /\ last.m = "insert_json"
    /\ last.arg.ty = "Keyed"
    /\ last.ret = PanicR
    /\ pc[last.t] = "done"
    /\ doc # EmptyDoc
    /\ open = {}

-----------------------------------------------------------------------------
(* Writes through handles *)

\* the nodes under the entry of map node h at key
Under(nodes, h, key) ==
    IF Map_get(nodes, h, key).t = "ref"
    THEN ReachFrom(nodes, {Map_get(nodes, h, key).id}, {})
    ELSE {}

\* the document nodes after the entry of h at key was replaced by scalar v and
\* nothing else was touched
Replaced(nodes, h, key, v) ==
    [i \in DOMAIN nodes \ Under(nodes, h, key) |->
        IF i = h THEN [nodes[h] EXCEPT !.entries[key] = AnyV(v)] ELSE nodes[i]]

\* C16: insert and insert_with_txn put the value at the key, whatever the key
\* held (nothing, a scalar, a map / array / text node), and change nothing
\* else: the other keys of the map and every node not under the key are as
\* before; insert has committed exactly that when it returns
C16_InsertReplacesOnly ==
    (last.m \in {"insert", "insert_with_txn"} /\ pc[last.t] # "idle") =>
        /\ last.ret = Unit
        /\ Map_get(work, last.h, last.key) = AnyV(last.arg.p.v)
        /\ OtherEntriesKept(pre, work, last.h, last.key)
        /\ \A i \in DOMAIN pre \ Under(pre, last.h, last.key) :
               i \in DOMAIN work /\ (i # last.h => work[i] = pre[i])
        /\ work = Replaced(pre, last.h, last.key, last.arg.p.v)
        /\ pc[last.t] = "done" => doc = Replaced(pre, last.h, last.key, last.arg.p.v)

\* insert has replaced a map node under a key of a nested map whose other
\* key holds something
C16_Witness ==
    /\ last.m = "insert"
    /\ pc[last.t] = "done"
    /\ last.h # Root
    /\ KindAt(pre, last.h, last.key) = "map"
    /\ \E k \in Keys \ {last.key} : Map_get(pre, last.h, k).t # "none"

\* C17: a handle names a node and holds no copy of it.  get_map_with_txn
\* returns the node the key's entry refers to and makes none, so that two
\* lookups of one key give the same node; a clone is the same node again and
\* leaves the document as it was; what insert / insert_with_txn wrote
\* through a handle is what every lookup that resolves to that node reads,
\* in the transaction and, once committed, in the document
C17_HandlesAreViews ==
    /\ (last.m = "get_map_with_txn" /\ last.ret # None) =>
           /\ work = pre
           /\ last.ret.id \in MapIds(work)
           /\ Map_get(work, last.h, last.key) = Ref(last.ret.id)
           /\ get_map_with_txn(work, last.h, last.key) = last.ret
    /\ last.m = "clone" =>
           /\ last.ret = Handle(last.h)
           /\ work = pre
           /\ DOMAIN work = DOMAIN pre
    /\ (last.m \in {"insert", "insert_with_txn"} /\ pc[last.t] # "idle") =>
           \A h \in MapIds(work), k \in Keys :
               get_map_with_txn(work, h, k) = Handle(last.h) =>
                   /\ Map_get(work, get_map_with_txn(work, h, k).id, last.key)
                          = AnyV(last.arg.p.v)
                   /\ Projection(work, h).fields[k].fields[last.key]
                          = JNum(last.arg.p.v)
                   /\ pc[last.t] = "done" =>
                          /\ get_map_with_txn(doc, h, k) = Handle(last.h)
                          /\ Projection(doc, h).fields[k].fields[last.key]
                                 = JNum(last.arg.p.v)

\* insert through the handle of a nested map has committed, and a lookup of
\* the key at the root resolves to the node written
C17_Witness ==
    /\ last.m = "insert"
    /\ pc[last.t] = "done"
    /\ last.h # Root
    /\ \E k \in Keys : get_map_with_txn(doc, Root, k) = Handle(last.h)
    /\ opens[last.t].mut = 1

-----------------------------------------------------------------------------
(* The two structured writes *)

\* C19: a closure whose one write is insert_json_with_txn(txn, key, v)
\* leaves the document that insert_json(key, v) leaves, whatever the key
\* held before
C19_StructuredWritesAgree ==
    (/\ last.m = "insert_json_with_txn"
     /\ to_value_ok(last.arg.ty, last.arg.val)
     /\ pre = doc) =>
        Projection(work, Root) =
            Projection(insert_json(doc, last.h, last.key,
                                   last.arg.ty, last.arg.val).nodes, Root)

-----------------------------------------------------------------------------
(* Get-or-insert of an array *)

\* C20: get_or_insert_array_with_txn returns the array node the key already
\* names and leaves the document as it was; when the key holds nothing or
\* something that is no array, it puts a new empty array there in place of
\* what was held and returns it.  Afterwards the key holds an array, and a
\* second call on the key returns the same node and changes nothing
C20_GetOrInsertArray ==
    /\ last.m = "get_or_insert_array_with_txn" =>
           /\ IF KindAt(pre, last.h, last.key) = "array"
              THEN /\ last.ret = Handle(Map_get(pre, last.h, last.key).id)
                   /\ work = pre
              ELSE /\ last.ret.tag = "handle"
                   /\ last.ret.id \notin DOMAIN pre
                   /\ work[last.ret.id] = ArrayNode(<<>>)
                   /\ work = Collect([((last.ret.id :> ArrayNode(<<>>)) @@ pre)
                                         EXCEPT ![last.h].entries[last.key]
                                                    = Ref(last.ret.id)])
                   /\ Under(pre, last.h, last.key) \cap DOMAIN work = {}
                   /\ OtherEntriesKept(pre, work, last.h, last.key)
           /\ KindAt(work, last.h, last.key) = "array"
           /\ Map_get(work, last.h, last.key) = Ref(last.ret.id)
           /\ get_or_insert_array_with_txn(work, last.h, last.key)
                  = [nodes |-> work, ret |-> last.ret]
    /\ (pc["t1"] = "in_txn" /\ last.m = "none") =>
           \A h \in MapIds(work), key \in Keys :
               LET r1 == get_or_insert_array_with_txn(work, h, key)
                   r2 == get_or_insert_array_with_txn(r1.nodes, h, key)
               IN /\ r2.ret = r1.ret
                  /\ r2.nodes = r1.nodes
                  /\ KindAt(work, h, key) = "array" =>
                         r2.nodes[r2.ret.id] = work[Map_get(work, h, key).id]

\* the call found an array that holds 1, 2 and returned it as it is
C20_Witness ==
    /\ last.m = "get_or_insert_array_with_txn"
    /\ KindAt(pre, last.h, last.key) = "array"
    /\ work[last.ret.id].items = <<1, 2>>
    /\ work = pre

\* the call put a new empty array where the key held a map
C20_WitnessReplaced ==
    /\ last.m = "get_or_insert_array_with_txn"
    /\ KindAt(pre, last.h, last.key) = "map"
    /\ work[last.ret.id] = ArrayNode(<<>>)

=============================================================================
